---- MODULE Spec2Model ----
(***************************************************************************)
(* The evaluation graph of the CMCC truth-model workbook built by          *)
(* cmcc_truth_model_builder.py: the cells the builder writes (data cells   *)
(* and formulas) and their values under the spreadsheet's recalculation.   *)
(* Numbers are IEEE-754 binary64 values (the number type of a worksheet    *)
(* cell), computed with round-to-nearest-even on 53-bit significands.      *)
(***************************************************************************)
EXTENDS Integers, Sequences, FiniteSets, TLC

\* F applied to the value of x, which is evaluated once
Let(x, F(_)) == CHOOSE r \in {F(v) : v \in {x}} : TRUE

(***************************************************************************)
(* Natural numbers of any size: little-endian sequences of limbs < Base,   *)
(* without leading zero limbs (<<>> is zero).                              *)
(***************************************************************************)
Base == 2^14

Trim(a0) ==
  Let(a0 \o <<>>, LAMBDA a :
    LET nz == {i \in 1..Len(a) : a[i] # 0}
    IN IF nz = {} THEN <<>>
       ELSE SubSeq(a, 1, CHOOSE i \in nz : \A j \in nz : j <= i))

RECURSIVE Carry(_, _)
Carry(a0, c0) ==
  Let(<<a0 \o <<>>, c0>>, LAMBDA st :
    IF st[1] = <<>>
    THEN IF st[2] = 0 THEN <<>>
         ELSE <<st[2] % Base>> \o Carry(<<>>, st[2] \div Base)
    ELSE <<(st[1][1] + st[2]) % Base>>
         \o Carry(Tail(st[1]), (st[1][1] + st[2]) \div Base))

Limb(a, i) == IF i >= 1 /\ i <= Len(a) THEN a[i] ELSE 0

MaxOf(x, y) == IF x >= y THEN x ELSE y

BAdd(a0, b0) ==
  Let(<<a0, b0>>, LAMBDA p :
    Carry([i \in 1..MaxOf(Len(p[1]), Len(p[2])) |-> Limb(p[1], i) + Limb(p[2], i)], 0))

RECURSIVE BCmpFrom(_, _, _)
BCmpFrom(a, b, i) ==
  IF i = 0 THEN 0
  ELSE IF Limb(a, i) > Limb(b, i) THEN 1
  ELSE IF Limb(a, i) < Limb(b, i) THEN -1
  ELSE BCmpFrom(a, b, i - 1)

\* -1, 0, 1 as a < b, a = b, a > b
BCmp(a0, b0) ==
  Let(<<a0, b0>>, LAMBDA p :
    Let(MaxOf(Len(p[1]), Len(p[2])), LAMBDA n : BCmpFrom(p[1], p[2], n)))

\* the limbs of a - b from limb i on, c the borrow taken from limb i
RECURSIVE Borrow(_, _, _, _)
Borrow(a, b, i0, c0) ==
  Let(<<i0, c0>>, LAMBDA ic :
    IF ic[1] > Len(a) THEN <<>>
    ELSE Let(a[ic[1]] - Limb(b, ic[1]) - ic[2], LAMBDA t :
           IF t < 0 THEN <<t + Base>> \o Borrow(a, b, ic[1] + 1, 1)
                    ELSE <<t>> \o Borrow(a, b, ic[1] + 1, 0)))

\* a - b for a >= b
BSub(a0, b0) == Let(<<a0, b0>>, LAMBDA p : Trim(Borrow(p[1], p[2], 1, 0)))

RECURSIVE ColSum(_, _, _, _)
ColSum(a, b, k, i0) ==
  Let(i0, LAMBDA i :
    IF i > Len(a) THEN 0
    ELSE (IF k - i + 1 >= 1 /\ k - i + 1 <= Len(b) THEN a[i] * b[k - i + 1] ELSE 0)
         + ColSum(a, b, k, i + 1))

\* a * b, for operands of at most four limbs (column sums stay below 2^31)
BMul(a0, b0) ==
  Let(<<a0, b0>>, LAMBDA p :
    IF p[1] = <<>> \/ p[2] = <<>> THEN <<>>
    ELSE Trim(Carry([k \in 1..(Len(p[1]) + Len(p[2]) - 1) |->
                       ColSum(p[1], p[2], k, 1)], 0)))

\* a * n for a small n (n < 2^16)
BMulSmall(a0, n0) ==
  Let(<<a0, n0>>, LAMBDA p : Trim(Carry([i \in 1..Len(p[1]) |-> p[1][i] * p[2]], 0)))

Zeros(n) == [i \in 1..n |-> 0]

\* a * 2^k
BShl(a0, k0) ==
  Let(<<a0, k0>>, LAMBDA p :
    IF p[1] = <<>> THEN <<>>
    ELSE Zeros(p[2] \div 14) \o BMulSmall(p[1], 2^(p[2] % 14)))

\* a \div 2^k
BShr(a0, k0) ==
  Let(<<a0, k0 \div 14, k0 % 14>>, LAMBDA p :
    IF Len(p[1]) - p[2] <= 0 THEN <<>>
    ELSE Trim([i \in 1..(Len(p[1]) - p[2]) |->
                 (p[1][p[2] + i] \div 2^p[3])
                 + (Limb(p[1], p[2] + i + 1) % 2^p[3]) * 2^(14 - p[3])]))

RECURSIVE IntBits(_)
IntBits(n0) == Let(n0, LAMBDA n : IF n = 0 THEN 0 ELSE 1 + IntBits(n \div 2))

\* the number of bits of a (0 for zero)
BitLen(a0) ==
  Let(a0, LAMBDA a : IF a = <<>> THEN 0 ELSE (Len(a) - 1) * 14 + IntBits(a[Len(a)]))

IsOdd(a0) == Let(a0, LAMBDA a : a # <<>> /\ a[1] % 2 = 1)

FromInt(n) == Carry(<<>>, n)

\* one step of restoring division by d from qr = <<q, r>> (r < d): the pair
\* <<2 * q + (2 * r) \div d, (2 * r) % d>>
DivStep(qr, d) ==
  Let(<<BShl(qr[1], 1), BShl(qr[2], 1)>>, LAMBDA s :
    IF BCmp(s[2], d) >= 0
    THEN <<BAdd(s[1], <<1>>), BSub(s[2], d)>>
    ELSE s)

\* k steps: <<q * 2^k + (r * 2^k) \div d, (r * 2^k) % d>>
RECURSIVE DivLoop(_, _, _)
DivLoop(qr0, d, k0) ==
  Let(<<qr0, k0>>, LAMBDA p :
    IF p[2] = 0 THEN p[1]
    ELSE DivLoop(DivStep(p[1], d), d, p[2] - 1))

\* sixty quotient bits of r / d (r < d) and the remainder
RECURSIVE DivTens(_, _, _)
DivTens(qr0, d, n0) ==
  Let(<<qr0, n0>>, LAMBDA p :
    IF p[2] = 0 THEN p[1]
    ELSE DivTens(DivLoop(p[1], d, 10), d, p[2] - 1))

Div60(r0, d0) == Let(<<r0, d0>>, LAMBDA p : DivTens(<<<<>>, p[1]>>, p[2], 6))

\* the quotient bits and a last bit set when the division left a remainder
Sticky(qr0) ==
  Let(qr0, LAMBDA qr :
    BAdd(BShl(qr[1], 1), IF qr[2] = <<>> THEN <<>> ELSE <<1>>))

(***************************************************************************)
(* Cell values: a number (sign s, 53-bit significand m, exponent e, value  *)
(* (-1)^s * m * 2^e; zero has the empty significand), an empty cell, a     *)
(* text, a boolean or an error.                                            *)
(***************************************************************************)
Num(s, m, e) == [t |-> "num", s |-> s, m |-> m, e |-> e]
Zero == Num(0, <<>>, 0)
Blank == [t |-> "blank"]
Text(v) == [t |-> "text", v |-> v]
Bool(b) == [t |-> "bool", b |-> b]
Err(k) == [t |-> "err", k |-> k]

IsNum(x) == x.t = "num"
IsErr(x) == x.t = "err"
IsZero(x) == x.m = <<>>

\* a (of L bits) cut to 53 bits: <<q, d>> with q the nearest to a / 2^d,
\* ties to even, and d = L - 53
Nearest(a, L) ==
  IF L <= 53 THEN <<BShl(a, 53 - L), L - 53>>
  ELSE Let(BShr(a, L - 53), LAMBDA q :
         Let(BCmp(BSub(a, BShl(q, L - 53)), BShl(<<1>>, L - 54)), LAMBDA c :
           IF c > 0 \/ (c = 0 /\ IsOdd(q))
           THEN <<BAdd(q, <<1>>), L - 53>>
           ELSE <<q, L - 53>>))

\* the binary64 nearest to (-1)^s * a * 2^e (ties to even); beyond the
\* largest finite double the cell shows #NUM!, below the smallest normal 0
Round(s, a0, e) ==
  Let(a0, LAMBDA a :
    IF a = <<>> THEN Zero
    ELSE Let(Nearest(a, BitLen(a)), LAMBDA qd :
           Let(BitLen(qd[1]) > 53, LAMBDA over :
             Let(e + qd[2] + (IF over THEN 1 ELSE 0), LAMBDA ex :
               IF ex + 52 > 1023 THEN Err("#NUM!")
               ELSE IF ex + 52 < -1022 THEN Zero
               ELSE Num(s, IF over THEN BShr(qd[1], 1) ELSE qd[1], ex)))))

Neg(x0) == Let(x0, LAMBDA x : IF IsZero(x) THEN x ELSE Num(1 - x.s, x.m, x.e))

FMul(x0, y0) ==
  Let(<<x0, y0>>, LAMBDA p :
    IF IsZero(p[1]) \/ IsZero(p[2]) THEN Zero
    ELSE Round((p[1].s + p[2].s) % 2, BMul(p[1].m, p[2].m), p[1].e + p[2].e))

\* hi + lo for hi.e >= lo.e, neither zero; an operand more than 60 binary
\* places below the other only decides the direction of rounding
AddAligned(hi, lo) ==
  Let(IF hi.e - lo.e > 60 THEN 60 ELSE hi.e - lo.e, LAMBDA d :
    Let(<<BShl(hi.m, d), IF hi.e - lo.e > 60 THEN <<1>> ELSE lo.m>>, LAMBDA AB :
      \* the sign and the magnitude of the exact sum, in units of 2^(hi.e - d)
      Let(IF hi.s = lo.s THEN <<hi.s, BAdd(AB[1], AB[2])>>
          ELSE Let(IF BCmp(AB[1], AB[2]) >= 0 THEN <<hi.s, AB[1], AB[2]>>
                   ELSE <<lo.s, AB[2], AB[1]>>,
                   LAMBDA t : <<t[1], BSub(t[2], t[3])>>),
          LAMBDA sm : Round(sm[1], sm[2], hi.e - d))))

FAdd(x0, y0) ==
  Let(<<x0, y0>>, LAMBDA p :
    IF IsZero(p[1]) THEN p[2]
    ELSE IF IsZero(p[2]) THEN p[1]
    ELSE Let(IF p[1].e >= p[2].e THEN p ELSE <<p[2], p[1]>>,
             LAMBDA q : AddAligned(q[1], q[2])))

FSub(x, y) == FAdd(x, Neg(y))

\* x / y for y # 0: sixty quotient bits and a sticky bit, then one rounding
FDiv(x0, y0) ==
  Let(<<x0, y0>>, LAMBDA p :
    IF IsZero(p[1]) THEN Zero
    ELSE Round((p[1].s + p[2].s) % 2, Sticky(Div60(p[1].m, BShl(p[2].m, 1))),
               p[1].e - p[2].e - 60))

FAbs(x0) == Let(x0, LAMBDA x : Num(0, x.m, x.e))

Sign(x) == IF IsZero(x) THEN 0 ELSE IF x.s = 1 THEN -1 ELSE 1

\* -1, 0, 1 as x < y, x = y, x > y
FCmp(x0, y0) ==
  Let(<<x0, y0>>, LAMBDA p :
    IF Sign(p[1]) # Sign(p[2]) THEN (IF Sign(p[1]) > Sign(p[2]) THEN 1 ELSE -1)
    ELSE IF Sign(p[1]) = 0 THEN 0
    ELSE IF p[1].e # p[2].e
      THEN (IF p[1].e > p[2].e THEN Sign(p[1]) ELSE -Sign(p[1]))
    ELSE Sign(p[1]) * BCmp(p[1].m, p[2].m))

(***************************************************************************)
(* A decimal literal of the source, d1.d2d3... * 10^p, as the binary64     *)
(* the Python float literal denotes.                                       *)
(***************************************************************************)
\* the number written with the decimal digits st[1] after the digits of st[2]
RECURSIVE DigitsNat(_)
DigitsNat(st0) ==
  Let(st0, LAMBDA st :
    IF st[1] = <<>> THEN st[2]
    ELSE DigitsNat(<<Tail(st[1]),
                     BAdd(BMulSmall(st[2], 10), FromInt(Head(st[1])))>>))

\* a * 10^n
RECURSIVE MulPow10(_, _)
MulPow10(a0, n0) ==
  Let(<<a0, n0>>, LAMBDA p :
    IF p[1] = <<>> THEN <<>>
    ELSE IF p[2] >= 4 THEN MulPow10(BMulSmall(p[1], 10000), p[2] - 4)
    ELSE BMulSmall(p[1], 10^p[2]))

Pow10(n) == MulPow10(<<1>>, n)

\* n / den for n, den > 0: n / den = (n2 / d2) * 2^t with 1/4 <= n2 / d2 < 1
Ratio(n, den) ==
  Let(BitLen(n) - BitLen(den) + 1, LAMBDA t :
    Round(0, Sticky(Div60(IF t >= 0 THEN n ELSE BShl(n, -t),
                          IF t >= 0 THEN BShl(den, t) ELSE den)), t - 61))

Sci(ds, p) ==
  Let(<<DigitsNat(<<ds, <<>>>>), p - (Len(ds) - 1)>>, LAMBDA np :
    IF np[1] = <<>> THEN Zero
    ELSE IF np[2] >= 0 THEN Round(0, MulPow10(np[1], np[2]), 0)
    ELSE Let(Pow10(-np[2]), LAMBDA den : Ratio(np[1], den)))

\* a literal given as <<digits, p>>
Literal(l) == Sci(l[1], l[2])

(***************************************************************************)
(* Operators and functions of the formula language, as the workbook's      *)
(* formulas use them.                                                      *)
(***************************************************************************)
\* 1 = 2^52 * 2^-52
One == Num(0, <<0, 0, 0, 1024>>, -52)

\* the operand of an arithmetic operator: an empty cell counts 0, a boolean
\* 1 or 0, a text that is no number gives #VALUE!, an error stays
ToNum(v0) ==
  Let(v0, LAMBDA v :
    IF v.t = "num" THEN v
    ELSE IF v.t = "blank" THEN Zero
    ELSE IF v.t = "bool" THEN (IF v.b THEN One ELSE Zero)
    ELSE IF v.t = "text" THEN Err("#VALUE!")
    ELSE v)

\* the value a formula leaves in its cell: a reference to an empty cell shows 0
CellOf(v0) == Let(v0, LAMBDA v : IF v.t = "blank" THEN Zero ELSE v)

XMul(a, b) ==
  Let(<<ToNum(a), ToNum(b)>>, LAMBDA p :
    IF IsErr(p[1]) THEN p[1]
    ELSE IF IsErr(p[2]) THEN p[2]
    ELSE FMul(p[1], p[2]))

XAdd(a, b) ==
  Let(<<ToNum(a), ToNum(b)>>, LAMBDA p :
    IF IsErr(p[1]) THEN p[1]
    ELSE IF IsErr(p[2]) THEN p[2]
    ELSE FAdd(p[1], p[2]))

XSub(a, b) ==
  Let(<<ToNum(a), ToNum(b)>>, LAMBDA p :
    IF IsErr(p[1]) THEN p[1]
    ELSE IF IsErr(p[2]) THEN p[2]
    ELSE FSub(p[1], p[2]))

XDiv(a, b) ==
  Let(<<ToNum(a), ToNum(b)>>, LAMBDA p :
    IF IsErr(p[1]) THEN p[1]
    ELSE IF IsErr(p[2]) THEN p[2]
    ELSE IF IsZero(p[2]) THEN Err("#DIV/0!")
    ELSE FDiv(p[1], p[2]))

\* x^2
XSquare(a0) == Let(a0, LAMBDA a : XMul(a, a))

\* ABS(x)
XAbs(a) == Let(ToNum(a), LAMBDA x : IF IsErr(x) THEN x ELSE FAbs(x))

\* x = "" : true of an empty cell and of the empty text
XIsEmptyText(v0) ==
  Let(v0, LAMBDA v :
    IF IsErr(v) THEN v
    ELSE Bool(v.t = "blank" \/ (v.t = "text" /\ v.v = "")))

\* x <= y : numbers compare by value (an empty cell counts 0), any number is
\* below any text, any text below any boolean
Rank(v) == IF v.t = "bool" THEN 3 ELSE IF v.t = "text" THEN 2 ELSE 1

XLe(a0, b0) ==
  Let(<<a0, b0>>, LAMBDA p :
    IF IsErr(p[1]) THEN p[1]
    ELSE IF IsErr(p[2]) THEN p[2]
    ELSE IF Rank(p[1]) # Rank(p[2]) THEN Bool(Rank(p[1]) < Rank(p[2]))
    ELSE IF Rank(p[1]) = 1 THEN Bool(FCmp(ToNum(p[1]), ToNum(p[2])) <= 0)
    ELSE IF Rank(p[1]) = 3 THEN Bool(p[1].b => p[2].b)
    ELSE Bool(p[1].v = p[2].v))

\* the first error among the cells, Blank when there is none
RECURSIVE FirstErr(_)
FirstErr(cells0) ==
  Let(cells0 \o <<>>, LAMBDA cells :
    IF cells = <<>> THEN Blank
    ELSE IF IsErr(Head(cells)) THEN Head(cells)
    ELSE FirstErr(Tail(cells)))

Numbers(cells0) ==
  Let(cells0, LAMBDA cells : {cells[i] : i \in {j \in 1..Len(cells) : IsNum(cells[j])}})

\* MAX and MIN over cell references: texts, booleans and empty cells are
\* skipped, an error is returned, no number at all gives 0
XMax(cells) ==
  Let(<<FirstErr(cells), Numbers(cells)>>, LAMBDA p :
    IF p[1] # Blank THEN p[1]
    ELSE IF p[2] = {} THEN Zero
    ELSE CHOOSE x \in p[2] : \A y \in p[2] : FCmp(x, y) >= 0)

XMin(cells) ==
  Let(<<FirstErr(cells), Numbers(cells)>>, LAMBDA p :
    IF p[1] # Blank THEN p[1]
    ELSE IF p[2] = {} THEN Zero
    ELSE CHOOSE x \in p[2] : \A y \in p[2] : FCmp(x, y) <= 0)

\* the truth value of an argument given as a value: a number is true when
\* it is not 0, a text gives #VALUE!
ToBool(v0) ==
  Let(v0, LAMBDA v :
    IF v.t = "bool" THEN v
    ELSE IF v.t = "num" THEN Bool(~IsZero(v))
    ELSE IF v.t = "blank" THEN Bool(FALSE)
    ELSE IF v.t = "text" THEN Err("#VALUE!")
    ELSE v)

\* OR(a, b, c)
XOr(args) ==
  Let([i \in 1..Len(args) |-> ToBool(args[i])] \o <<>>, LAMBDA bs :
    Let(FirstErr(bs), LAMBDA e :
      IF e # Blank THEN e ELSE Bool(\E i \in 1..Len(bs) : bs[i].b)))

\* NOT(a)
XNot(a) == Let(ToBool(a), LAMBDA b : IF IsErr(b) THEN b ELSE Bool(~b.b))

\* VLOOKUP(key, rows, col, FALSE): the cell in column col of the first row
\* whose first cell equals the key; #N/A when no row does
SameKey(cell, key) == cell.t = "text" /\ key.t = "text" /\ cell.v = key.v

VLOOKUP(key0, rows0, col) ==
  Let(<<key0, rows0 \o <<>>>>, LAMBDA p :
    IF IsErr(p[1]) THEN p[1]
    ELSE Let({i \in 1..Len(p[2]) : SameKey(p[2][i][1], p[1])}, LAMBDA hits :
           IF hits = {} THEN Err("#N/A")
           ELSE p[2][CHOOSE i \in hits : \A j \in hits : i <= j][col]))

(***************************************************************************)
(* The rows the builder writes.                                            *)
(***************************************************************************)
\* Numbers are kept as the source writes them: <<digits, p>> for
\* d1.d2d3... * 10^p.
\* D_Units: UnitID (column 1), ToSI_Mult (5), ToSI_Offset (6)
units_data == <<
  1 :> "U_J"     @@ 5 :> <<<<1>>, 0>> @@ 6 :> <<<<0>>, 0>>,
  1 :> "U_eV"    @@ 5 :> <<<<1,6,0,2,1,7,6,6,3,4>>, -19>> @@ 6 :> <<<<0>>, 0>>,
  1 :> "U_ftlbf" @@ 5 :> <<<<1,3,5,5,8,1,7,9,4,8,3,3,1,4>>, 0>> @@ 6 :> <<<<0>>, 0>>,
  1 :> "U_K"     @@ 5 :> <<<<1>>, 0>> @@ 6 :> <<<<0>>, 0>>,
  1 :> "U_C"     @@ 5 :> <<<<1>>, 0>> @@ 6 :> <<<<2,7,3,1,5>>, 2>>,
  1 :> "U_kg"    @@ 5 :> <<<<1>>, 0>> @@ 6 :> <<<<0>>, 0>>,
  1 :> "U_mps"   @@ 5 :> <<<<1>>, 0>> @@ 6 :> <<<<0>>, 0>>,
  1 :> "U_Coul"  @@ 5 :> <<<<1>>, 0>> @@ 6 :> <<<<0>>, 0>> >>

\* D_Constants: ConstantID, Value as built, UnitID
constants_rows == <<
  [id |-> "C_me",   value |-> <<<<9,1,0,9,3,8,3,7,1,3,9>>, -31>>, unit |-> "U_kg"],
  [id |-> "C_c",    value |-> <<<<2,9,9,7,9,2,4,5,8>>, 8>>,       unit |-> "U_mps"],
  [id |-> "C_e",    value |-> <<<<1,6,0,2,1,7,6,6,3,4>>, -19>>,   unit |-> "U_Coul"],
  [id |-> "C_mec2", value |-> <<<<8,1,8,7,1,0,5,7,8,8,0>>, -14>>, unit |-> "U_J"],
  [id |-> "C_abs0", value |-> <<<<0>>, 0>>,                        unit |-> "U_K"] >>

\* F_Calculations: CalcID
calc_rows == <<"F_Ecalc", "F_eV_to_J", "F_T_C_from_K">>

\* D_Instances: InstanceID, UnitID
instances_rows == <<
  [id |-> "I_Ecalc_J",     unit |-> "U_J"],
  [id |-> "I_Ecalc_eV",    unit |-> "U_eV"],
  [id |-> "I_Ecalc_ftlbf", unit |-> "U_ftlbf"],
  [id |-> "I_Eexpected_J", unit |-> "U_J"],
  [id |-> "I_Tabs0_K",     unit |-> "U_K"],
  [id |-> "I_Tabs0_C",     unit |-> "U_C"] >>

\* D_Claims: ClaimID, InstanceID_1..3 as built (an empty cell where the row
\* gives ""), ToleranceAbs_SI
claims_rows == <<
  [id |-> "CL1", refs |-> <<Text("I_Ecalc_J"), Text("I_Ecalc_eV"), Text("I_Ecalc_ftlbf")>>,
   tol |-> <<<<1>>, -25>>],
  [id |-> "CL2", refs |-> <<Text("I_Ecalc_J"), Text("I_Eexpected_J"), Blank>>,
   tol |-> <<<<1>>, -22>>],
  [id |-> "CL3", refs |-> <<Text("I_Tabs0_K"), Text("I_Tabs0_C"), Blank>>,
   tol |-> <<<<1>>, -9>>],
  [id |-> "CL4", refs |-> <<Blank, Blank, Blank>>,
   tol |-> <<<<0>>, 0>>] >>

\* D_Questions: QID, Mapped_Claims
questions_rows == <<
  [id |-> "Q0", mapped |-> {"CL4"}],
  [id |-> "Q1", mapped |-> {"CL1", "CL2", "CL3"}],
  [id |-> "Q2", mapped |-> {"CL1"}],
  [id |-> "Q3", mapped |-> {"CL2"}],
  [id |-> "Q4", mapped |-> {"CL3"}],
  [id |-> "Q5", mapped |-> {"CL1", "CL2", "CL3"}] >>

Ids(rows) == {rows[i].id : i \in 1..Len(rows)}
Row(rows0, id) ==
  Let(rows0, LAMBDA rows : rows[CHOOSE i \in 1..Len(rows) : rows[i].id = id])

ConstIds == Ids(constants_rows)
CalcIds == {calc_rows[i] : i \in 1..Len(calc_rows)}
InstIds == Ids(instances_rows)
ClaimIds == Ids(claims_rows)
QIds == Ids(questions_rows)

(***************************************************************************)
(* The workbook's cells.  Inputs: the Value cells of D_Constants, the      *)
(* UnitID cells of D_Constants and D_Instances, the one literal Value cell  *)
(* of D_Instances (I_Tabs0_K), the InstanceID and                          *)
(* ToleranceAbs_SI cells of D_Claims, the rows of D_Units, and the         *)
(* calculation ids the builder passes to vcalc for the Value of I_Ecalc_J  *)
(* and for SI_1 of CL4.  Every other variable is a formula column,         *)
(* recalculated after each edit.                                           *)
(***************************************************************************)
VARIABLES
  unitTable,      \* D_Units!A:F   (UnitID, ToSI_Mult, ToSI_Offset)
  claimTol,       \* D_Claims!H     (ToleranceAbs_SI)
  constUnit,      \* D_Constants!E  (UnitID)
  instUnit,       \* D_Instances!F  (UnitID)
  constValue,     \* D_Constants!D  (Value)
  instLiteral,    \* D_Instances!E6 (Value of I_Tabs0_K)
  claimRefs,      \* D_Claims!E:G   (InstanceID_1..3)
  inst_calc_id,   \* calc_id of vcalc in D_Instances!E2
  claim_calc_id,  \* calc_id of vcalc in D_Claims!I5
  constSI,        \* D_Constants!J  (Value_SI)
  calcSI,         \* F_Calculations!E (Result_SI)
  instValue,      \* D_Instances!E  (Value)
  instSI,         \* D_Instances!I  (Canonical_SI)
  claimSI,        \* D_Claims!I:K   (SI_1..3)
  claimRange,     \* D_Claims!L     (RangeAbs)
  claimPass,      \* D_Claims!M     (Pass)
  answer,         \* D_Questions!D  (Answer)
  edits           \* the number of edits made so far

inputs == <<unitTable, claimTol, constUnit, instUnit, constValue, instLiteral, claimRefs, inst_calc_id, claim_calc_id>>
derived == <<constSI, calcSI, instValue, instSI, claimSI, claimRange, claimPass, answer>>
vars == <<inputs, derived, edits>>

\* the longest sequence of edits explored
MaxEdits == 2

\* the values an edit may type into an input cell: 0, 1, 1e10
EditValues == {Literal(l) : l \in {<<<<0>>, 0>>, <<<<1>>, 0>>, <<<<1>>, 10>>}}

(***************************************************************************)
(* The formulas.                                                           *)
(***************************************************************************)
\* columns H and I of D_Constants, G and H of D_Instances
Unit_ToSI_Mult(unit, units) == CellOf(VLOOKUP(Text(unit), units, 5))
Unit_ToSI_Offset(unit, units) == CellOf(VLOOKUP(Text(unit), units, 6))

\* a variant of Value_SI that reads the two unit columns the other way round
Value_SI_Swapped(value, unit, units) ==
  XAdd(XMul(value, Unit_ToSI_Offset(unit, units)), Unit_ToSI_Mult(unit, units))

\* a variant of Value_SI that takes a unit id missing from D_Units for an SI
\* unit (multiplier 1, offset 0)
Value_SI_UnknownAsSI(value, unit, units) ==
  IF IsErr(VLOOKUP(Text(unit), units, 5)) THEN CellOf(value)
  ELSE XAdd(XMul(value, Unit_ToSI_Mult(unit, units)), Unit_ToSI_Offset(unit, units))

\* D_Constants!J = D*H+I
Value_SI(value, unit, units) ==
  XAdd(XMul(value, Unit_ToSI_Mult(unit, units)), Unit_ToSI_Offset(unit, units))

const_range(csi) ==
  [i \in 1..Len(constants_rows) |->
     1 :> Text(constants_rows[i].id) @@ 10 :> csi[constants_rows[i].id]]

vconst(const_id, csi) == VLOOKUP(Text(const_id), const_range(csi), 10)

calcs_range(fsi) ==
  [i \in 1..Len(calc_rows) |-> 1 :> Text(calc_rows[i]) @@ 5 :> fsi[calc_rows[i]]]

vcalc(calc_id, fsi) == VLOOKUP(Text(calc_id), calcs_range(fsi), 5)

\* F_Calculations!E: E2 = m_e * c^2, E3 = e, E4 is left empty
Result_SI(calc, csi) ==
  IF calc = "F_Ecalc" THEN XMul(vconst("C_me", csi), XSquare(vconst("C_c", csi)))
  ELSE IF calc = "F_eV_to_J" THEN CellOf(vconst("C_e", csi))
  ELSE Blank

\* a variant of InstanceValue whose I_Eexpected_J reads the constant C_e
InstanceValue_ExpectedFromCe(inst, lit, icalc, fsi, csi, units) ==
  IF inst = "I_Ecalc_J" THEN CellOf(vcalc(icalc, fsi))
  ELSE IF inst = "I_Ecalc_eV"
    THEN XDiv(vcalc("F_Ecalc", fsi), vcalc("F_eV_to_J", fsi))
  ELSE IF inst = "I_Ecalc_ftlbf"
    THEN XDiv(vcalc("F_Ecalc", fsi), VLOOKUP(Text("U_ftlbf"), units, 5))
  ELSE IF inst = "I_Eexpected_J" THEN CellOf(vconst("C_e", csi))
  ELSE IF inst = "I_Tabs0_K" THEN lit
  ELSE XSub(lit, Literal(<<<<2,7,3,1,5>>, 2>>))

\* a variant of InstanceValue whose I_Eexpected_J reads the cell E6
InstanceValue_ExpectedFromE6(inst, lit, icalc, fsi, csi, units) ==
  IF inst = "I_Ecalc_J" THEN CellOf(vcalc(icalc, fsi))
  ELSE IF inst = "I_Ecalc_eV"
    THEN XDiv(vcalc("F_Ecalc", fsi), vcalc("F_eV_to_J", fsi))
  ELSE IF inst = "I_Ecalc_ftlbf"
    THEN XDiv(vcalc("F_Ecalc", fsi), VLOOKUP(Text("U_ftlbf"), units, 5))
  ELSE IF inst = "I_Eexpected_J" THEN lit
  ELSE IF inst = "I_Tabs0_K" THEN lit
  ELSE XSub(lit, Literal(<<<<2,7,3,1,5>>, 2>>))

\* a variant of InstanceValue whose I_Tabs0_C reads the constant C_abs0
InstanceValue_CelsiusFromAbs0(inst, lit, icalc, fsi, csi, units) ==
  IF inst = "I_Ecalc_J" THEN CellOf(vcalc(icalc, fsi))
  ELSE IF inst = "I_Ecalc_eV"
    THEN XDiv(vcalc("F_Ecalc", fsi), vcalc("F_eV_to_J", fsi))
  ELSE IF inst = "I_Ecalc_ftlbf"
    THEN XDiv(vcalc("F_Ecalc", fsi), VLOOKUP(Text("U_ftlbf"), units, 5))
  ELSE IF inst = "I_Eexpected_J" THEN CellOf(vconst("C_mec2", csi))
  ELSE IF inst = "I_Tabs0_K" THEN lit
  ELSE XSub(vconst("C_abs0", csi), Literal(<<<<2,7,3,1,5>>, 2>>))

\* D_Instances!E: E2..E5 and E7 are formulas, E6 is the literal
InstanceValue(inst, lit, icalc, fsi, csi, units) ==
  IF inst = "I_Ecalc_J" THEN CellOf(vcalc(icalc, fsi))
  ELSE IF inst = "I_Ecalc_eV"
    THEN XDiv(vcalc("F_Ecalc", fsi), vcalc("F_eV_to_J", fsi))
  ELSE IF inst = "I_Ecalc_ftlbf"
    THEN XDiv(vcalc("F_Ecalc", fsi), VLOOKUP(Text("U_ftlbf"), units, 5))
  ELSE IF inst = "I_Eexpected_J" THEN CellOf(vconst("C_mec2", csi))
  ELSE IF inst = "I_Tabs0_K" THEN lit
  ELSE XSub(lit, Literal(<<<<2,7,3,1,5>>, 2>>))

\* a variant of Canonical_SI that leaves the unit's offset out
Canonical_SI_NoOffset(value, unit, units) == XMul(value, Unit_ToSI_Mult(unit, units))

\* D_Instances!I = E*G+H
Canonical_SI(value, unit, units) ==
  XAdd(XMul(value, Unit_ToSI_Mult(unit, units)), Unit_ToSI_Offset(unit, units))

inst_range(isi) ==
  [i \in 1..Len(instances_rows) |->
     1 :> Text(instances_rows[i].id) @@ 9 :> isi[instances_rows[i].id]]

\* D_Claims!I:K = IF(E="","",VLOOKUP(E,inst_range,9,FALSE))
ClaimLookup(ref, isi) ==
  Let(XIsEmptyText(ref), LAMBDA empty :
    IF IsErr(empty) THEN empty
    ELSE IF empty.b THEN Text("")
    ELSE CellOf(VLOOKUP(ref, inst_range(isi), 9)))

\* a variant of ClaimSI whose J5 reads the constant C_mec2
ClaimSI_OtherConst(claim, refs, ccalc, isi, fsi, csi) ==
  IF claim = "CL4"
  THEN <<CellOf(vcalc(ccalc, fsi)), CellOf(vconst("C_mec2", csi)), Blank>>
  ELSE [k \in 1..3 |-> ClaimLookup(refs[k], isi)]

\* row 5 (CL4) is patched: I5 = vcalc, J5 = vconst('C_e'), K5 = ""
ClaimSI(claim, refs, ccalc, isi, fsi, csi) ==
  IF claim = "CL4"
  THEN <<CellOf(vcalc(ccalc, fsi)), CellOf(vconst("C_e", csi)), Blank>>
  ELSE [k \in 1..3 |-> ClaimLookup(refs[k], isi)]

\* D_Claims!L = IF(K="",ABS(I-J),MAX(I,J,K)-MIN(I,J,K)); L5 = ABS(I5-J5)
RangeAbs(claim, si) ==
  IF claim = "CL4" THEN XAbs(XSub(si[1], si[2]))
  ELSE Let(XIsEmptyText(si[3]), LAMBDA empty :
         IF IsErr(empty) THEN empty
         ELSE IF empty.b THEN XAbs(XSub(si[1], si[2]))
         ELSE XSub(XMax(si), XMin(si)))

\* a variant of Pass with the strict comparison L<H
Pass_Strict(range, tol) ==
  Let(XLe(tol, range), LAMBDA ge : IF IsErr(ge) THEN ge ELSE XNot(ge))

\* D_Claims!M = L<=H
Pass(range, tol) == XLe(range, tol)

claims_range(pass) ==
  [i \in 1..Len(claims_rows) |->
     1 :> Text(claims_rows[i].id) @@ 13 :> pass[claims_rows[i].id]]

vclaim_pass(cid, pass) == VLOOKUP(Text(cid), claims_range(pass), 13)

\* a variant of Answer whose Q1 and Q5 leave CL3 out
Answer_DropCL3(q, pass) ==
  IF q = "Q0" THEN CellOf(vclaim_pass("CL4", pass))
  ELSE IF q = "Q1"
    THEN XOr(<<vclaim_pass("CL1", pass), vclaim_pass("CL2", pass)>>)
  ELSE IF q = "Q2" THEN XNot(vclaim_pass("CL1", pass))
  ELSE IF q = "Q3" THEN CellOf(vclaim_pass("CL2", pass))
  ELSE IF q = "Q4" THEN CellOf(vclaim_pass("CL3", pass))
  ELSE XOr(<<vclaim_pass("CL1", pass), vclaim_pass("CL2", pass)>>)

\* D_Questions!D2..D7
Answer(q, pass) ==
  IF q = "Q0" THEN CellOf(vclaim_pass("CL4", pass))
  ELSE IF q = "Q1"
    THEN XOr(<<vclaim_pass("CL1", pass), vclaim_pass("CL2", pass), vclaim_pass("CL3", pass)>>)
  ELSE IF q = "Q2" THEN XNot(vclaim_pass("CL1", pass))
  ELSE IF q = "Q3" THEN CellOf(vclaim_pass("CL2", pass))
  ELSE IF q = "Q4" THEN CellOf(vclaim_pass("CL3", pass))
  ELSE XOr(<<vclaim_pass("CL1", pass), vclaim_pass("CL2", pass), vclaim_pass("CL3", pass)>>)

(***************************************************************************)
(* Recalculation: each formula column from the columns it reads.           *)
(***************************************************************************)
ConstSIOf(cv, cu, units) == [c \in ConstIds |-> Value_SI(cv[c], cu[c], units)]

CalcSIOf(csi) == [f \in CalcIds |-> Result_SI(f, csi)]

InstValueOf(lit, icalc, fsi, csi, units) ==
  [i \in InstIds |-> InstanceValue(i, lit, icalc, fsi, csi, units)]

InstSIOf(iv, iu, units) == [i \in InstIds |-> Canonical_SI(iv[i], iu[i], units)]

ClaimSIOf(refs, ccalc, isi, fsi, csi) ==
  [c \in ClaimIds |-> ClaimSI(c, refs[c], ccalc, isi, fsi, csi)]

ClaimRangeOf(si) == [c \in ClaimIds |-> RangeAbs(c, si[c])]

ClaimPassOf(range, tol) == [c \in ClaimIds |-> Pass(range[c], tol[c])]

AnswerOf(pass) == [q \in QIds |-> Answer(q, pass)]

Recalculate ==
  /\ constSI' = ConstSIOf(constValue', constUnit', unitTable')
  /\ calcSI' = CalcSIOf(constSI')
  /\ instValue' = InstValueOf(instLiteral', inst_calc_id', calcSI', constSI', unitTable')
  /\ instSI' = InstSIOf(instValue', instUnit', unitTable')
  /\ claimSI' = ClaimSIOf(claimRefs', claim_calc_id', instSI', calcSI', constSI')
  /\ claimRange' = ClaimRangeOf(claimSI')
  /\ claimPass' = ClaimPassOf(claimRange', claimTol')
  /\ answer' = AnswerOf(claimPass')

\* the workbook as built, when it is first opened and calculated
Built(icalc, ccalc) ==
  /\ unitTable = [i \in 1..Len(units_data) |->
                    1 :> Text(units_data[i][1])
                    @@ 5 :> Literal(units_data[i][5]) @@ 6 :> Literal(units_data[i][6])]
  /\ claimTol = [c \in ClaimIds |-> Literal(Row(claims_rows, c).tol)]
  /\ constUnit = [c \in ConstIds |-> Row(constants_rows, c).unit]
  /\ instUnit = [i \in InstIds |-> Row(instances_rows, i).unit]
  /\ constValue = [c \in ConstIds |-> Literal(Row(constants_rows, c).value)]
  /\ instLiteral = Zero
  /\ claimRefs = [c \in ClaimIds |-> Row(claims_rows, c).refs]
  /\ inst_calc_id = icalc
  /\ claim_calc_id = ccalc
  /\ constSI = ConstSIOf(constValue, constUnit, unitTable)
  /\ calcSI = CalcSIOf(constSI)
  /\ instValue = InstValueOf(instLiteral, inst_calc_id, calcSI, constSI, unitTable)
  /\ instSI = InstSIOf(instValue, instUnit, unitTable)
  /\ claimSI = ClaimSIOf(claimRefs, claim_calc_id, instSI, calcSI, constSI)
  /\ claimRange = ClaimRangeOf(claimSI)
  /\ claimPass = ClaimPassOf(claimRange, claimTol)
  /\ answer = AnswerOf(claimPass)
  /\ edits = 0

Init == Built("F_Ecalc", "F_eV_to_J")

\* the user types v into the Value cell of constant c
EditConstant(c, v) ==
  /\ edits < MaxEdits
  /\ v # constValue[c]
  /\ constValue' = [constValue EXCEPT ![c] = v]
  /\ UNCHANGED <<unitTable, claimTol, constUnit, instUnit, instLiteral, claimRefs, inst_calc_id, claim_calc_id>>
  /\ edits' = edits + 1
  /\ Recalculate

\* the user types v into the Value cell of I_Tabs0_K
EditInstance(v) ==
  /\ edits < MaxEdits
  /\ v # instLiteral
  /\ instLiteral' = v
  /\ UNCHANGED <<unitTable, claimTol, constUnit, instUnit, constValue, claimRefs, inst_calc_id, claim_calc_id>>
  /\ edits' = edits + 1
  /\ Recalculate

Next ==
  \/ \E c \in ConstIds, v \in EditValues : EditConstant(c, v)
  \/ \E v \in EditValues : EditInstance(v)

Spec == Init /\ [][Next]_vars

\* the InstanceID cells an edit may leave in a claim row
RefValues == {Blank, Text("I_Ecalc_J"), Text("I_Tabs0_K")}

\* the user types ref into InstanceID_k of claim cl (D_Claims!E:G)
EditClaimRef(cl, k, ref) ==
  /\ edits < MaxEdits
  /\ ref # claimRefs[cl][k]
  /\ claimRefs' = [claimRefs EXCEPT ![cl][k] = ref]
  /\ UNCHANGED <<unitTable, claimTol, constUnit, instUnit, constValue, instLiteral, inst_calc_id, claim_calc_id>>
  /\ edits' = edits + 1
  /\ Recalculate

NextRefs ==
  \/ Next
  \/ \E cl \in ClaimIds, k \in 1..3, ref \in RefValues : EditClaimRef(cl, k, ref)

\* the workbook with edits of the claims' InstanceID cells as well
SpecRefs == Init /\ [][NextRefs]_vars

\* the workbook built with any calculation id of F_Calculations given to
\* vcalc for the Value of I_Ecalc_J and for SI_1 of CL4
InitVcalc == \E icalc \in CalcIds, ccalc \in CalcIds : Built(icalc, ccalc)

SpecVcalc == InitVcalc /\ [][Next]_vars

\* a unit id that D_Units does not hold
UnitIdValues == {"U_unknown"}

\* the user types unit id u into the UnitID cell of constant c
EditConstantUnit(c, u) ==
  /\ edits < MaxEdits
  /\ u # constUnit[c]
  /\ constUnit' = [constUnit EXCEPT ![c] = u]
  /\ UNCHANGED <<unitTable, claimTol, instUnit, constValue, instLiteral, claimRefs, inst_calc_id, claim_calc_id>>
  /\ edits' = edits + 1
  /\ Recalculate

\* the user types unit id u into the UnitID cell of instance i
EditInstanceUnit(i, u) ==
  /\ edits < MaxEdits
  /\ u # instUnit[i]
  /\ instUnit' = [instUnit EXCEPT ![i] = u]
  /\ UNCHANGED <<unitTable, claimTol, constUnit, constValue, instLiteral, claimRefs, inst_calc_id, claim_calc_id>>
  /\ edits' = edits + 1
  /\ Recalculate

NextUnits ==
  \/ Next
  \/ \E c \in ConstIds, u \in UnitIdValues : EditConstantUnit(c, u)
  \/ \E i \in InstIds, u \in UnitIdValues : EditInstanceUnit(i, u)

\* the workbook with edits of the UnitID cells as well
SpecUnits == Init /\ [][NextUnits]_vars

\* further values typed into the Value cell of I_Tabs0_K: 0.1 and
\* -4294967200
LiteralValues ==
  {Let(Literal(l), LAMBDA x : IF l[3] = 1 THEN Neg(x) ELSE x) :
     l \in {<<<<1>>, -1, 0>>, <<<<4,2,9,4,9,6,7,2>>, 9, 1>>}}

NextLiteral ==
  \/ Next
  \/ \E v \in LiteralValues : EditInstance(v)

\* the workbook with the further literal values for I_Tabs0_K as well
SpecLiteral == Init /\ [][NextLiteral]_vars

(***************************************************************************)
(* Properties.                                                             *)
(***************************************************************************)
\* the Value cell of constant c as the builder writes it
ValueAsBuilt(c) == Literal(Row(constants_rows, c).value)

\* C1: in every state reached by edits of constant values and of the literal
\* instance value, Pass of every claim is TRUE exactly when RangeAbs <=
\* ToleranceAbs_SI, equality included; where RangeAbs shows an error, Pass
\* shows that error.
C1_PassIsRangeWithinTolerance ==
  \A c \in ClaimIds :
    IF IsNum(claimRange[c])
    THEN claimPass[c] = Bool(FCmp(claimRange[c], claimTol[c]) <= 0)
    ELSE IsErr(claimRange[c]) /\ claimPass[c] = claimRange[c]

\* after an edit: a claim whose range equals its tolerance passes, while
\* another claim's range is above its tolerance and fails
C1_Witness ==
  /\ edits > 0
  /\ claimRange["CL4"] = claimTol["CL4"]
  /\ claimPass["CL4"] = Bool(TRUE)
  /\ \E c \in ClaimIds :
       /\ IsNum(claimRange[c])
       /\ FCmp(claimRange[c], claimTol[c]) > 0
       /\ claimPass[c] = Bool(FALSE)

\* C2: Value_SI of every constant and Canonical_SI of every instance is
\* value * ToSI_Mult + ToSI_Offset, with the multiplier and the offset of the
\* D_Units row the record names, the offset of U_C (273.15) included; an error
\* in the value is shown as it is.
C2_CanonicalIsMultPlusOffset ==
  LET unitRow(u) ==
        unitTable[CHOOSE i \in 1..Len(unitTable) : unitTable[i][1] = Text(u)]
      affine(v, u) ==
        IF IsNum(v) THEN FAdd(FMul(v, unitRow(u)[5]), unitRow(u)[6]) ELSE v
  IN /\ \A c \in ConstIds :
          constSI[c] = affine(constValue[c], constUnit[c])
     /\ \A i \in InstIds :
          instSI[i] = affine(instValue[i], instUnit[i])

\* after an edit of the literal: the Celsius instance's canonical value is
\* its value moved by the offset, the eV instance's is its value scaled
C2_Witness ==
  /\ instLiteral # Zero
  /\ IsNum(instSI["I_Tabs0_C"])
  /\ FCmp(instSI["I_Tabs0_C"], instValue["I_Tabs0_C"]) > 0
  /\ IsNum(instSI["I_Ecalc_eV"])
  /\ instSI["I_Ecalc_eV"] # instValue["I_Ecalc_eV"]

\* C3: after any edits of constant values, the canonical SI of each of
\* I_Ecalc_J, I_Ecalc_eV, I_Ecalc_ftlbf is within CL1's tolerance of the
\* result of F_Ecalc, and CL1 passes.
C3_EnergyInstancesRoundTrip ==
  /\ \A i \in {"I_Ecalc_J", "I_Ecalc_eV", "I_Ecalc_ftlbf"} :
       /\ IsNum(instSI[i])
       /\ FCmp(FAbs(FSub(instSI[i], calcSI["F_Ecalc"])), claimTol["CL1"]) <= 0
  /\ claimPass["CL1"] = Bool(TRUE)

\* C4: whatever the value of C_e, both values CL4 compares are the Value_SI
\* of C_e, its RangeAbs is exactly 0 and it passes its tolerance 0.
C4_CL4RangeIsZero ==
  /\ claimSI["CL4"][1] = constSI["C_e"]
  /\ claimSI["CL4"][2] = constSI["C_e"]
  /\ claimRange["CL4"] = Zero
  /\ claimPass["CL4"] = Bool(TRUE)

\* C_e has been edited to 1e10 and CL4 compares that value with itself
C4_Witness ==
  /\ constValue["C_e"] = Literal(<<<<1>>, 10>>)
  /\ claimSI["CL4"][1] = Literal(<<<<1>>, 10>>)
  /\ claimRange["CL4"] = Zero
  /\ claimPass["CL4"] = Bool(TRUE)

C6_SingleReferencePasses ==
  \A c \in ClaimIds :
    Cardinality({k \in 1..3 : ~XIsEmptyText(claimRefs[c][k]).b}) = 1 =>
      claimRange[c] = Zero /\ claimPass[c] = Bool(TRUE)

\* C7: an edit of one constant's value leaves RangeAbs and Pass of the
\* claims, and the answers of the questions, that do not depend on that
\* constant as they were: C_abs0 changes none; C_mec2 at most CL2, Q1, Q3,
\* Q5; C_me or C_c leaves CL3, CL4, Q0, Q4; C_e leaves CL2, CL3, Q3, Q4.
C7_EditLeavesIndependentResults ==
  [][LET changed == {c \in ConstIds : constValue'[c] # constValue[c]}
         sameClaims(cs) ==
           \A c \in cs : claimRange'[c] = claimRange[c] /\ claimPass'[c] = claimPass[c]
         sameAnswers(qs) == \A q \in qs : answer'[q] = answer[q]
     IN instLiteral' = instLiteral =>
          /\ changed = {"C_abs0"} => sameClaims(ClaimIds) /\ sameAnswers(QIds)
          /\ changed = {"C_mec2"} =>
               /\ sameClaims(ClaimIds \ {"CL2"})
               /\ sameAnswers(QIds \ {"Q1", "Q3", "Q5"})
          /\ (changed = {"C_me"} \/ changed = {"C_c"}) =>
               sameClaims({"CL3", "CL4"}) /\ sameAnswers({"Q0", "Q4"})
          /\ changed = {"C_e"} =>
               sameClaims({"CL2", "CL3"}) /\ sameAnswers({"Q3", "Q4"})]_vars

\* C_abs0 and C_mec2 have been edited: CL2 and Q3 changed to FALSE, the
\* other claims still pass and Q1 is still TRUE
C7_Witness ==
  /\ constValue["C_abs0"] # ValueAsBuilt("C_abs0")
  /\ constValue["C_mec2"] # ValueAsBuilt("C_mec2")
  /\ claimPass["CL2"] = Bool(FALSE)
  /\ answer["Q3"] = Bool(FALSE)
  /\ \A c \in {"CL1", "CL3", "CL4"} : claimPass[c] = Bool(TRUE)
  /\ answer["Q1"] = Bool(TRUE)

\* C8 as stated: an edit that changes a constant's value changes its
\* Value_SI and every calculation result, instance value and canonical SI,
\* claim range and pass, and question answer that depends on the constant.
C8_EveryDependentChanges ==
  [][LET calcsOf(c) == IF c \in {"C_me", "C_c"} THEN {"F_Ecalc"}
                       ELSE IF c = "C_e" THEN {"F_eV_to_J"} ELSE {}
         instsOf(c) == IF c \in {"C_me", "C_c"}
                         THEN {"I_Ecalc_J", "I_Ecalc_eV", "I_Ecalc_ftlbf"}
                       ELSE IF c = "C_e" THEN {"I_Ecalc_eV"}
                       ELSE IF c = "C_mec2" THEN {"I_Eexpected_J"} ELSE {}
         claimsOf(c) == IF c \in {"C_me", "C_c"} THEN {"CL1", "CL2"}
                        ELSE IF c = "C_e" THEN {"CL1", "CL4"}
                        ELSE IF c = "C_mec2" THEN {"CL2"} ELSE {}
         questionsOf(c) ==
           {q \in QIds : Row(questions_rows, q).mapped \cap claimsOf(c) # {}}
     IN \A c \in ConstIds :
          constValue'[c] # constValue[c] =>
            /\ constSI'[c] # constSI[c]
            /\ \A f \in calcsOf(c) : calcSI'[f] # calcSI[f]
            /\ \A i \in instsOf(c) : instSI'[i] # instSI[i]
            /\ \A k \in claimsOf(c) :
                 claimRange'[k] # claimRange[k] /\ claimPass'[k] # claimPass[k]
            /\ \A q \in questionsOf(c) : answer'[q] # answer[q]]_vars

\* C8 as the workbook behaves: an edit that changes a constant's value
\* changes its Value_SI and the cells that show that one constant's Value_SI
\* as it is (F_eV_to_J and the two values CL4 compares for C_e; the value and
\* canonical SI of I_Eexpected_J for C_mec2).
C8_PassThroughsChange ==
  [][\A c \in ConstIds :
       constValue'[c] # constValue[c] =>
         /\ constSI'[c] # constSI[c]
         /\ c = "C_e" =>
              /\ calcSI'["F_eV_to_J"] # calcSI["F_eV_to_J"]
              /\ claimSI'["CL4"][1] # claimSI["CL4"][1]
              /\ claimSI'["CL4"][2] # claimSI["CL4"][2]
         /\ c = "C_mec2" =>
              /\ instValue'["I_Eexpected_J"] # instValue["I_Eexpected_J"]
              /\ instSI'["I_Eexpected_J"] # instSI["I_Eexpected_J"]]_vars

\* C_e and C_mec2 have been edited and the cells that show them follow
C8_Witness ==
  /\ constValue["C_e"] # ValueAsBuilt("C_e")
  /\ constSI["C_e"] = constValue["C_e"]
  /\ calcSI["F_eV_to_J"] = constValue["C_e"]
  /\ constValue["C_mec2"] # ValueAsBuilt("C_mec2")
  /\ instSI["I_Eexpected_J"] = constValue["C_mec2"]

\* C9: every answer is its formula over the Pass cells of its mapped claims
\* and of nothing else: Q0 = CL4, Q1 = OR(CL1, CL2, CL3), Q2 = NOT(CL1),
\* Q3 = CL2, Q4 = CL3, Q5 = OR(CL1, CL2, CL3); where a Pass cell it reads
\* shows an error, the answer shows the first such error.
C9_AnswersAreFormulasOfPass ==
  LET or3 ==
        IF IsErr(claimPass["CL1"]) THEN claimPass["CL1"]
        ELSE IF IsErr(claimPass["CL2"]) THEN claimPass["CL2"]
        ELSE IF IsErr(claimPass["CL3"]) THEN claimPass["CL3"]
        ELSE Bool(\E c \in {"CL1", "CL2", "CL3"} : claimPass[c].b)
      not1 ==
        IF IsErr(claimPass["CL1"]) THEN claimPass["CL1"]
        ELSE Bool(~claimPass["CL1"].b)
      mapped(q) == Row(questions_rows, q).mapped
  IN /\ answer["Q0"] = claimPass["CL4"] /\ mapped("Q0") = {"CL4"}
     /\ answer["Q1"] = or3 /\ mapped("Q1") = {"CL1", "CL2", "CL3"}
     /\ answer["Q2"] = not1 /\ mapped("Q2") = {"CL1"}
     /\ answer["Q3"] = claimPass["CL2"] /\ mapped("Q3") = {"CL2"}
     /\ answer["Q4"] = claimPass["CL3"] /\ mapped("Q4") = {"CL3"}
     /\ answer["Q5"] = or3 /\ mapped("Q5") = {"CL1", "CL2", "CL3"}

\* CL1 and CL2 fail and CL3 passes: CL3 alone makes Q1 and Q5 TRUE
C9_Witness ==
  /\ claimPass["CL1"] = Bool(FALSE)
  /\ claimPass["CL2"] = Bool(FALSE)
  /\ claimPass["CL3"] = Bool(TRUE)
  /\ answer["Q1"] = Bool(TRUE)
  /\ answer["Q5"] = Bool(TRUE)
  /\ answer["Q2"] = Bool(TRUE)
  /\ answer["Q3"] = Bool(FALSE)

\* C10 as stated: no cell reads a cell of its own sheet's other rows or of a
\* later sheet, so an edit of a constant's value changes no other constant's
\* Value_SI, and an edit of the literal instance value changes no constant,
\* no calculation and no other instance.
C10_StrictlyLayered ==
  [][/\ \A c \in ConstIds :
          constValue'[c] = constValue[c] => constSI'[c] = constSI[c]
     /\ instLiteral' # instLiteral =>
          /\ constSI' = constSI /\ calcSI' = calcSI
          /\ \A i \in InstIds \ {"I_Tabs0_K"} :
               instValue'[i] = instValue[i] /\ instSI'[i] = instSI[i]]_vars

\* C10 as the workbook behaves: the same, except that the value of
\* I_Tabs0_C is computed from the value cell of I_Tabs0_K, a row of its own
\* sheet.
C10_LayeredExceptCelsius ==
  [][/\ \A c \in ConstIds :
          constValue'[c] = constValue[c] => constSI'[c] = constSI[c]
     /\ instLiteral' # instLiteral =>
          /\ constSI' = constSI /\ calcSI' = calcSI
          /\ \A i \in InstIds \ {"I_Tabs0_K", "I_Tabs0_C"} :
               instValue'[i] = instValue[i] /\ instSI'[i] = instSI[i]]_vars

\* the literal has been edited to 1: I_Tabs0_C follows it, the energy
\* instances still show the result of F_Ecalc
C10_Witness ==
  /\ instLiteral = One
  /\ instSI["I_Tabs0_K"] = One
  /\ instValue["I_Tabs0_C"] = FSub(One, Literal(<<<<2,7,3,1,5>>, 2>>))
  /\ instValue["I_Ecalc_J"] = calcSI["F_Ecalc"]

\* C11: a constant or an instance whose UnitID cell holds an id missing from
\* D_Units shows an error in its Value_SI / Canonical_SI, and the edit that
\* puts the missing id there leaves every other constant's Value_SI and
\* every calculation result, instance value and canonical SI, claim range
\* and pass, and answer outside that record's dependency chain as it was.
C11_UnknownUnitIsConfined ==
  [][LET registered == {unitTable'[r][1].v : r \in DOMAIN unitTable'}
         calcsOf(c) == IF c \in {"C_me", "C_c"} THEN {"F_Ecalc"}
                       ELSE IF c = "C_e" THEN {"F_eV_to_J"} ELSE {}
         instsOf(c) == IF c \in {"C_me", "C_c"}
                         THEN {"I_Ecalc_J", "I_Ecalc_eV", "I_Ecalc_ftlbf"}
                       ELSE IF c = "C_e" THEN {"I_Ecalc_eV"}
                       ELSE IF c = "C_mec2" THEN {"I_Eexpected_J"} ELSE {}
         claimsOfConst(c) == IF c \in {"C_me", "C_c"} THEN {"CL1", "CL2"}
                             ELSE IF c = "C_e" THEN {"CL1", "CL4"}
                             ELSE IF c = "C_mec2" THEN {"CL2"} ELSE {}
         chainOfInst(i) == IF i = "I_Tabs0_K" THEN {i, "I_Tabs0_C"} ELSE {i}
         claimsOfInst(i) ==
           {k \in ClaimIds :
              \E j \in chainOfInst(i), n \in 1..3 : claimRefs[k][n] = Text(j)}
         questionsOf(ks) ==
           {q \in QIds : Row(questions_rows, q).mapped \cap ks # {}}
         same(cs, fs, is, ks) ==
           /\ \A c \in ConstIds \ cs : constSI'[c] = constSI[c]
           /\ \A f \in CalcIds \ fs : calcSI'[f] = calcSI[f]
           /\ \A i \in InstIds \ is :
                instValue'[i] = instValue[i] /\ instSI'[i] = instSI[i]
           /\ \A k \in ClaimIds \ ks :
                /\ claimSI'[k] = claimSI[k]
                /\ claimRange'[k] = claimRange[k]
                /\ claimPass'[k] = claimPass[k]
           /\ \A q \in QIds \ questionsOf(ks) : answer'[q] = answer[q]
     IN /\ \A c \in ConstIds :
             constUnit'[c] \notin registered => IsErr(constSI'[c])
        /\ \A i \in InstIds :
             instUnit'[i] \notin registered => IsErr(instSI'[i])
        /\ \A c \in ConstIds :
             constUnit'[c] # constUnit[c] =>
               same({c}, calcsOf(c), instsOf(c), claimsOfConst(c))
        /\ \A i \in InstIds :
             instUnit'[i] # instUnit[i] =>
               same({}, {}, chainOfInst(i), claimsOfInst(i))]_vars

\* the UnitID of C_mec2 is not in D_Units: its Value_SI, and with it CL2 and
\* Q3, show #N/A while the other claims pass and Q0, Q4 are TRUE
C11_Witness ==
  /\ constUnit["C_mec2"] = "U_unknown"
  /\ constSI["C_mec2"] = Err("#N/A")
  /\ claimPass["CL2"] = Err("#N/A")
  /\ answer["Q3"] = Err("#N/A")
  /\ \A k \in {"CL1", "CL3", "CL4"} : claimPass[k] = Bool(TRUE)
  /\ answer["Q0"] = Bool(TRUE) /\ answer["Q4"] = Bool(TRUE)
  /\ \A c \in ConstIds \ {"C_mec2"} : IsNum(constSI[c])

\* C12 as stated: in every state, whatever was typed into the Value cell of
\* I_Tabs0_K and into the constants, the canonical SI values of I_Tabs0_K
\* and I_Tabs0_C are equal, CL3 passes and Q4 is TRUE.
C12_AnchorsEqualForEveryLiteral ==
  /\ instSI["I_Tabs0_K"] = instSI["I_Tabs0_C"]
  /\ claimPass["CL3"] = Bool(TRUE)
  /\ answer["Q4"] = Bool(TRUE)

\* C12 as the workbook behaves: the value of I_Tabs0_C is the literal of
\* I_Tabs0_K minus 273.15 and its canonical SI is that value plus 273.15,
\* whatever the constants hold; RangeAbs of CL3 is the distance of the two
\* canonical SI values, CL3 passes exactly when that distance is within its
\* tolerance and Q4 shows Pass of CL3.  The two canonical SI values are equal
\* for the literals 0, 1 and 1e10, and CL3 passes for every literal that is
\* not negative; for the literal -4294967200 the distance is above the
\* tolerance, CL3 fails and Q4 is FALSE.
C12_AnchorsFollowTheLiteral ==
  LET celsius == FSub(instLiteral, Literal(<<<<2,7,3,1,5>>, 2>>))
      distance == FAbs(FSub(instSI["I_Tabs0_K"], instSI["I_Tabs0_C"]))
  IN /\ instValue["I_Tabs0_K"] = instLiteral
     /\ instSI["I_Tabs0_K"] = instLiteral
     /\ instValue["I_Tabs0_C"] = celsius
     /\ instSI["I_Tabs0_C"] = FAdd(celsius, unitTable[5][6])
     /\ claimRange["CL3"] = distance
     /\ claimPass["CL3"] = Bool(FCmp(distance, claimTol["CL3"]) <= 0)
     /\ answer["Q4"] = claimPass["CL3"]
     /\ instLiteral \in EditValues => instSI["I_Tabs0_K"] = instSI["I_Tabs0_C"]
     /\ Sign(instLiteral) >= 0 => claimPass["CL3"] = Bool(TRUE)
     /\ (instLiteral \in LiteralValues /\ Sign(instLiteral) < 0) =>
          /\ FCmp(distance, claimTol["CL3"]) > 0
          /\ answer["Q4"] = Bool(FALSE)

\* C_abs0 has been edited and 0.1 typed into I_Tabs0_K: the two canonical SI
\* values differ, by less than the tolerance, and CL3 and Q4 are TRUE
C12_Witness ==
  /\ constValue["C_abs0"] # ValueAsBuilt("C_abs0")
  /\ instLiteral \in LiteralValues
  /\ Sign(instLiteral) > 0
  /\ instSI["I_Tabs0_K"] # instSI["I_Tabs0_C"]
  /\ claimPass["CL3"] = Bool(TRUE)
  /\ answer["Q4"] = Bool(TRUE)

====
